---- MODULE Spec2Model ----
(***************************************************************************)
(* Roomease landing page: the routed React tree (App), the theme mode, and *)
(* the ambient 3D scenes of the five designs (react-three-fiber useFrame   *)
(* callbacks writing mesh rotation / position once per rendered frame).    *)
(*                                                                         *)
(* Numbers.  JavaScript doubles are modelled in fixed point:               *)
(*   - time (state.clock.elapsedTime) in milliseconds;                     *)
(*   - angles, positions, sizes in millionths (1.0 = 1000000);             *)
(*   - Math.sin takes millionths of a radian and returns ten-thousandths   *)
(*     (1.0 = 10000), so "sin(a) * 0.2" is Sin(a) * 20 in millionths;      *)
(*   - the speed prop in tenths (speed 0.8 = 8);                           *)
(*   - light intensity in tenths;                                          *)
(*   - Math.random() in thousandths, 0 .. 999;                             *)
(*   - the intensity props of <Float> in tenths, its phase offset in ms.   *)
(* NaN is a distinguished value that every arithmetic operation on the     *)
(* clock reading propagates.                                               *)
(***************************************************************************)
EXTENDS Integers, Sequences, FiniteSets, TLC

VARIABLES
    path,       \* the router's current location
    loaded,     \* the designs whose lazy() import has resolved
    mounted,    \* the design whose element is in the React tree, 0 under the Suspense fallback
    running,    \* the Canvas frame loop has the scene's useFrame callbacks subscribed
    theme,      \* ThemeContext's mode
    count,      \* the count prop of ParticleField
    elapsed,    \* state.clock.elapsedTime of the mounted Canvas
    ent,        \* the meshes of the mounted scene, in JSX order
    positions,  \* ParticleField's memoised Float32Array
    points,     \* ParticleField's THREE.Points (<<>> when the scene has none)
    lights,     \* the lights of the mounted scene
    crashed,    \* an uncaught TypeError was thrown by a frame callback
    failed,     \* a render threw and, with no error boundary in App, React unmounted the root
    floats,     \* the <Float> wrapper groups of the mounted scene, one per mesh
    seeds,      \* the values Math.random() returns to the <Float> instances, in render order
    scrollY,    \* window.scrollY
    scrolled,   \* Nav's scrolled state
    listening,  \* Nav's scroll handler is registered on window
    hist,       \* history: the clock readings of the frames delivered to the latest scene
    unmounts,   \* history: route elements unmounted since the last scene mount (saturating)
    last        \* history: the operation that produced this state

vars == <<path, loaded, mounted, running, theme, count, elapsed, ent, positions,
          points, lights, crashed, failed, floats, seeds, scrollY, scrolled,
          listening, hist, unmounts, last>>

\* ------------------------------------------------------------------ bounds

MaxFrames == 2          \* frames delivered to one mounted scene (varied frame times)
ScenarioFrames == 100   \* frames of the fixed-step scenario run
MaxCount == 2           \* largest non-default particle count tried
RandPeriod == 2         \* period of the Math.random() streams tried
MaxUnmounts == 2        \* saturation of the unmount history counter

FixedStep == 16         \* a 60 Hz frame time, ms; the virtual step of the scenario run
StallStep == 1500       \* the frame time after a stalled tab, ms
Deltas == {FixedStep, StallStep}    \* measured frame times
RandVals == {0, 999}    \* Math.random() values tried: the ends of [0, 1)
Paths == {"/1", "/2", "/3", "/4", "/5", "/about"}
Designs == 1..5

\* ------------------------------------------------------------ float helpers

NaN == -999999999

IsNaN(x) == x = NaN

\* x * k on a clock reading
FMul(x, k) == IF IsNaN(x) THEN NaN ELSE x * k

\* x / k
FDiv(x, k) == IF IsNaN(x) THEN NaN ELSE x \div k

\* x + y
FAdd(x, y) == IF IsNaN(x) \/ IsNaN(y) THEN NaN ELSE x + y

\* sine of a first-quadrant angle, Taylor series to x^9 in ten-thousandths
SinQ(x) ==
    LET y  == x \div 100
        y2 == (y * y) \div 10000
        t3 == (y * y2) \div 10000
        t5 == (t3 * y2) \div 10000
        t7 == ((t5 \div 10) * y2) \div 1000
        t9 == ((t7 \div 100) * y2) \div 100
    IN  y - (t3 \div 6) + (t5 \div 120) - (t7 \div 5040) + (t9 \div 362880)

SinPos(x) ==
    LET pi == 3141593
        r  == x % (2 * pi)
    IN  IF r <= pi \div 2 THEN SinQ(r)
        ELSE IF r <= pi THEN SinQ(pi - r)
        ELSE IF r <= pi + pi \div 2 THEN 0 - SinQ(r - pi)
        ELSE 0 - SinQ(2 * pi - r)

\* Math.sin (the argument a is evaluated once)
Sin(x) ==
    [a \in {x} |-> IF IsNaN(a) THEN NaN
                   ELSE IF a >= 0 THEN SinPos(a) ELSE 0 - SinPos(0 - a)][x]

\* ------------------------------------------------------------------ router

\* variant: the elements of two routes exchanged
RouteOfSwapped(p) ==
    CASE p = "/1" -> 1
      [] p = "/2" -> 4
      [] p = "/3" -> 3
      [] p = "/4" -> 2
      [] p = "/5" -> 5
      [] OTHER -> 0

\* <Routes>: the design whose <Route> matches the location, 0 for path="*"
RouteOf(p) ==
    CASE p = "/1" -> 1
      [] p = "/2" -> 2
      [] p = "/3" -> 3
      [] p = "/4" -> 4
      [] p = "/5" -> 5
      [] OTHER -> 0

\* <Navigate to="/1" replace />
RedirectTarget == "/1"

\* ------------------------------------------------------------------- theme

Themes == {"light", "dark"}

\* ThemeContext.toggleTheme
toggleTheme(t) == IF t = "dark" THEN "light" ELSE "dark"

\* const isDark = theme === 'dark'
IsDark(t) == t = "dark"

\* ------------------------------------------------------------------ meshes

DefaultCount == 200

Vec(x, y, z) == <<x, y, z>>

SetX(v, x) == <<x, v[2], v[3]>>
SetY(v, y) == <<v[1], y, v[3]>>
SetZ(v, z) == <<v[1], v[2], z>>

\* a mesh element as first committed: the props applied to a new THREE.Mesh
Mesh(kind, position, color, speed, distort, size, rotation) ==
    [ kind     |-> kind,
      position |-> position,
      color    |-> color,
      speed    |-> speed,
      distort  |-> distort,
      size     |-> size,
      mesh     |-> [rotation |-> rotation, position |-> position],
      seenT    |-> 0 ]

NoRotation == Vec(0, 0, 0)

CosmicOrb(position, color, speed, distort, size) ==
    Mesh("CosmicOrb", position, color, speed, distort, size, NoRotation)

FloatingRing(position, color) ==
    Mesh("FloatingRing", position, color, 15, 0, 1200000, NoRotation)

GeoBlock(position, color, rotation) ==
    Mesh("GeoBlock", position, color, 20, 0, 1000000, rotation)

GeoCylinder(position, color) ==
    Mesh("GeoCylinder", position, color, 15, 0, 500000, NoRotation)

GeoSphere(position, color, size) ==
    Mesh("GeoSphere", position, color, 0, 0, size, NoRotation)

GlassOrb(position, color, size) ==
    Mesh("GlassOrb", position, color, 15, 300000, size, NoRotation)

NeonTorus(position, color) ==
    Mesh("NeonTorus", position, color, 20, 0, 1000000, NoRotation)

NeonOctahedron(position, color) ==
    Mesh("NeonOctahedron", position, color, 15, 0, 600000, NoRotation)

OrganicBlob(position, color, size) ==
    Mesh("OrganicBlob", position, color, 10, 500000, size, NoRotation)

LeafShape(position, color, rotation) ==
    Mesh("LeafShape", position, color, 8, 0, 600000, rotation)

\* ------------------------------------------------------------ Float wrapper

\* <Float speed rotationIntensity floatIntensity> around the mesh: a group of its own,
\* the parent of the mesh, holding the sway; r is the instance's Math.random() draw
\* (offset = Math.random() * 10000 seconds).  GeoSphere is rendered without a wrapper.
Float(m, r) ==
    [ wrapped           |-> m.kind # "GeoSphere",
      speed             |-> m.speed,
      rotationIntensity |-> IF m.kind = "CosmicOrb" THEN 5 ELSE 10,
      floatIntensity    |-> CASE m.kind \in {"CosmicOrb", "NeonTorus", "OrganicBlob"} -> 15
                              [] m.kind \in {"FloatingRing", "NeonOctahedron"} -> 20
                              [] m.kind = "GeoBlock" -> 5
                              [] OTHER -> 10,
      offset            |-> IF m.kind # "GeoSphere" THEN r * 10000 ELSE 0,
      rotation          |-> Vec(0, 0, 0),
      position          |-> Vec(0, 0, 0) ]

\* the wrappers of the meshes ms, the k-th wrapped mesh taking the k-th draw of sd
Floats(ms, sd) ==
    [ i \in 1..Len(ms) |->
        Float(ms[i], sd[Cardinality({j \in 1..(i - 1) : ms[j].kind # "GeoSphere"})
                        % RandPeriod]) ]

\* (offset + t) / 4 * speed, in millionths of a radian, reduced to one turn
\* (kept to a hundred-thousandth of a radian)
FloatAngle(f, t) ==
    IF IsNaN(t) THEN NaN
    ELSE ((((f.offset + t) * f.speed * 5) \div 2) % 628319) * 10

Cos(x) == Sin(FAdd(x, 1570796))

\* Float's own frame callback: rotation = (cos(a)/8, sin(a)/8, sin(a)/20) * rotationIntensity
\* and position.y = sin(a)/10 * floatIntensity, written to the wrapper group
FloatFrame(f, t) ==
    CHOOSE g \in
        { IF ~h.wrapped THEN h
          ELSE CHOOSE k \in
                  { [h EXCEPT !.rotation = Vec(FDiv(FMul(sc[2], h.rotationIntensity * 5), 4),
                                               FDiv(FMul(sc[1], h.rotationIntensity * 5), 4),
                                               FDiv(FMul(sc[1], h.rotationIntensity), 2)),
                              !.position = Vec(0, FMul(sc[1], h.floatIntensity), 0)] :
                    sc \in { <<Sin(a), Cos(a)>> : a \in {FloatAngle(h, t)} } } : TRUE :
          h \in {f} } : TRUE

Light(kind, position, intensity, color) ==
    [kind |-> kind, position |-> position, intensity |-> intensity, color |-> color]

\* ------------------------------------------------------------------ scenes

CosmicScene(isDark) ==
    [ ent |-> <<
        CosmicOrb(Vec(-2500000, 1000000, -1000000), IF isDark THEN "#7c3aed" ELSE "#a78bfa", 8, 500000, 800000),
        CosmicOrb(Vec(2800000, -500000, 0), IF isDark THEN "#6366f1" ELSE "#818cf8", 12, 300000, 600000),
        CosmicOrb(Vec(500000, 2000000, -2000000), "#c084fc", 6, 600000, 500000),
        CosmicOrb(Vec(-1500000, -2000000, 1000000), "#a78bfa", 10, 400000, 400000),
        FloatingRing(Vec(1500000, 1500000, -1000000), IF isDark THEN "#a78bfa" ELSE "#7c3aed"),
        FloatingRing(Vec(-2000000, -1000000, 0), "#818cf8") >>,
      lights |-> <<
        Light("ambient", NoRotation, 4, "default"),
        Light("directional", Vec(5000000, 5000000, 5000000), 10, IF isDark THEN "#a78bfa" ELSE "#7c3aed"),
        Light("point", Vec(-3000000, -3000000, 2000000), 8, "#c084fc"),
        Light("point", Vec(3000000, 2000000, -2000000), 5, "#818cf8") >>,
      field |-> TRUE ]

BauhausScene ==
    [ ent |-> <<
        GeoBlock(Vec(-3000000, 1500000, -1000000), "#E63946", NoRotation),
        GeoBlock(Vec(3000000, -1000000, 0), "#2B59C3", Vec(500000, 500000, 0)),
        GeoCylinder(Vec(2500000, 2000000, -2000000), "#FFB703"),
        GeoSphere(Vec(-2500000, -1500000, 500000), "#FFB703", 700000),
        GeoSphere(Vec(500000, 2500000, -1000000), "#E63946", 400000) >>,
      lights |-> <<
        Light("ambient", NoRotation, 6, "default"),
        Light("directional", Vec(5000000, 5000000, 5000000), 12, "default"),
        Light("point", Vec(-5000000, 3000000, 2000000), 6, "#FFB703") >>,
      field |-> FALSE ]

AuroraScene(isDark) ==
    [ ent |-> <<
        GlassOrb(Vec(-2500000, 1200000, -1000000), "#22d3ee", 700000),
        GlassOrb(Vec(2800000, -500000, 0), "#a78bfa", 500000),
        GlassOrb(Vec(500000, 2200000, -2000000), "#34d399", 400000),
        GlassOrb(Vec(-1200000, -1800000, 500000), "#f472b6", 550000) >>,
      lights |-> <<
        Light("ambient", NoRotation, 5, "default"),
        Light("directional", Vec(5000000, 5000000, 5000000), 8, "#22d3ee"),
        Light("point", Vec(-3000000, 2000000, 3000000), 6, "#a78bfa"),
        Light("point", Vec(3000000, -2000000, 2000000), 4, "#34d399") >>,
      field |-> FALSE ]

CyberScene ==
    [ ent |-> <<
        NeonTorus(Vec(-2500000, 1000000, -1000000), "#00f5ff"),
        NeonTorus(Vec(2500000, -500000, 0), "#ff2d6f"),
        NeonOctahedron(Vec(1000000, 2000000, -2000000), "#b829dd"),
        NeonOctahedron(Vec(-1500000, -1500000, 500000), "#00f5ff") >>,
      lights |-> <<
        Light("ambient", NoRotation, 2, "default"),
        Light("point", Vec(3000000, 3000000, 3000000), 10, "#00f5ff"),
        Light("point", Vec(-3000000, -2000000, 2000000), 8, "#ff2d6f"),
        Light("point", Vec(0, 2000000, -3000000), 5, "#b829dd") >>,
      field |-> FALSE ]

BotanicalScene(isDark) ==
    [ ent |-> <<
        OrganicBlob(Vec(-2800000, 1200000, -1000000), "#C0654A", 800000),
        OrganicBlob(Vec(3000000, -800000, 0), "#8B9E6B", 600000),
        OrganicBlob(Vec(500000, 2300000, -2000000), "#6B7F4E", 500000),
        LeafShape(Vec(-1500000, -1800000, 500000), "#8B9E6B", NoRotation),
        LeafShape(Vec(2000000, 1500000, -1500000), "#6B7F4E", Vec(500000, 0, 300000)) >>,
      lights |-> <<
        Light("ambient", NoRotation, 8, "#faf5ef"),
        Light("directional", Vec(5000000, 5000000, 5000000), 8, "#faf5ef"),
        Light("point", Vec(-3000000, 2000000, 3000000), 4, "#C0654A"),
        Light("point", Vec(3000000, -2000000, 2000000), 3, "#8B9E6B") >>,
      field |-> FALSE ]

\* the scene a design's Hero renders under the given theme
\* variant: CyberScene given the isDark prop, its ambient light brighter in light mode
RenderThemed(d, isDark) ==
    CASE d = 1 -> CosmicScene(isDark)
      [] d = 2 -> BauhausScene
      [] d = 3 -> AuroraScene(isDark)
      [] d = 4 -> IF isDark THEN CyberScene
                  ELSE [CyberScene EXCEPT !.lights[1] = Light("ambient", NoRotation, 6, "default")]
      [] d = 5 -> BotanicalScene(isDark)

Render(d, isDark) ==
    CASE d = 1 -> CosmicScene(isDark)
      [] d = 2 -> BauhausScene
      [] d = 3 -> AuroraScene(isDark)
      [] d = 4 -> CyberScene
      [] d = 5 -> BotanicalScene(isDark)

\* ----------------------------------------------------------- particle field

\* variant: the random value not centred on zero
CoordinateUncentred(r, k) == r * (IF k = 2 THEN 10 ELSE 20) * 1000

\* one coordinate of a particle from one Math.random() value r; k = 0, 1, 2 for x, y, z
Coordinate(r, k) == (r - 500) * (IF k = 2 THEN 10 ELSE 20) * 1000

\* variant: the length is clamped, Math.max(0, count * 3)
Float32ArrayClamped(len) == TRUE

\* new Float32Array(len) returns an array for a length of 0 or more, and throws a
\* RangeError for a negative one
Float32Array(len) == len >= 0

\* the body of ParticleField's useMemo: count particles, three Math.random() calls each,
\* rnd the stream of values Math.random() returns
GeneratePositions(n, rnd) ==
    [j \in 1..(3 * n) |-> Coordinate(rnd[(j - 1) % RandPeriod], (j - 1) % 3)]

\* variant: no dependency list, recomputed on every render
useMemoNoDeps(prev, prevCount, n, rnd) == GeneratePositions(n, rnd)

\* useMemo(..., [count]): recompute only when the dependency changed
useMemo(prev, prevCount, n, rnd) ==
    IF n = prevCount THEN prev ELSE GeneratePositions(n, rnd)

\* <points> with its <pointsMaterial>
Points(isDark) ==
    [ rotation |-> NoRotation,
      size     |-> 30000,
      color    |-> IF isDark THEN "#c4b5fd" ELSE "#7c3aed",
      seenT    |-> 0 ]

\* --------------------------------------------------------- frame callbacks
\* Each takes the mesh record m (ref.current is m.mesh) and t, the value the
\* callback reads from state.clock.elapsedTime.

\* variant: rotation.y recomputed from the elapsed time instead of accumulated
CosmicOrbFrameFromTime(m, t) ==
    LET r == m.mesh.rotation
    IN  [m EXCEPT !.mesh.rotation =
            Vec(FMul(Sin(FMul(t, m.speed * 30)), 20), FMul(t, 3 * m.speed), r[3])]

CosmicOrbFrame(m, t) ==
    LET r == m.mesh.rotation
    IN  [m EXCEPT !.mesh.rotation =
            Vec(FMul(Sin(FMul(t, m.speed * 30)), 20), r[2] + 300 * m.speed, r[3])]

\* variant: rotation.x accumulated, rotation.x += t * 0.2
FloatingRingFrameAccumulates(m, t) ==
    LET r == m.mesh.rotation
    IN  [m EXCEPT !.mesh.rotation =
            Vec(r[1] + FMul(t, 200), r[2], FMul(Sin(FMul(t, 300)), 50))]

FloatingRingFrame(m, t) ==
    LET r == m.mesh.rotation
    IN  [m EXCEPT !.mesh.rotation = Vec(FMul(t, 200), r[2], FMul(Sin(FMul(t, 300)), 50))]

\* variant: the angles advanced by the elapsed time on every frame
NeonTorusFrameAccumulates(m, t) ==
    LET r == m.mesh.rotation
    IN  [m EXCEPT !.mesh.rotation = Vec(FAdd(r[1], FMul(t, 300)), FAdd(r[2], FMul(t, 200)), r[3])]

NeonTorusFrame(m, t) ==
    LET r == m.mesh.rotation
    IN  [m EXCEPT !.mesh.rotation = Vec(FMul(t, 300), FMul(t, 200), r[3])]

\* variant: rotation.y assigned from the elapsed time, the same as the increment at 60 fps
NeonOctahedronFrameFromTime(m, t) ==
    LET r == m.mesh.rotation
    IN  [m EXCEPT !.mesh.rotation = Vec(r[1], FMul(t, 625), FMul(Sin(FMul(t, 400)), 30))]

NeonOctahedronFrame(m, t) ==
    LET r == m.mesh.rotation
    IN  [m EXCEPT !.mesh.rotation = Vec(r[1], r[2] + 10000, FMul(Sin(FMul(t, 400)), 30))]

\* variant: the sway added to rotation.x instead of assigned
GeoBlockFrameSwaysFromBase(m, t) ==
    LET r == m.mesh.rotation
    IN  [m EXCEPT !.mesh.rotation =
            Vec(FAdd(r[1], FMul(Sin(FMul(t, 300)), 10)), r[2] + 5000, r[3])]

GeoBlockFrame(m, t) ==
    LET r == m.mesh.rotation
    IN  [m EXCEPT !.mesh.rotation = Vec(FMul(Sin(FMul(t, 300)), 10), r[2] + 5000, r[3])]

GeoCylinderFrame(m, t) ==
    [m EXCEPT !.mesh.rotation = SetZ(m.mesh.rotation, FMul(t, 200))]

GeoSphereFrame(m, t) ==
    [m EXCEPT !.mesh.position =
        SetY(m.mesh.position, FAdd(m.position[2], FMul(Sin(FMul(t, 500)), 20)))]

\* variant: the bob added to the current position.y instead of the position prop
GlassOrbFrameDrifts(m, t) ==
    LET r == m.mesh.rotation
    IN  [m EXCEPT !.mesh.rotation = SetY(r, r[2] + 3000),
                  !.mesh.position =
                      SetY(m.mesh.position,
                           FAdd(m.mesh.position[2], FMul(Sin(FMul(t, 500)), 30)))]

GlassOrbFrame(m, t) ==
    LET r == m.mesh.rotation
    IN  [m EXCEPT !.mesh.rotation = SetY(r, r[2] + 3000),
                  !.mesh.position =
                      SetY(m.mesh.position, FAdd(m.position[2], FMul(Sin(FMul(t, 500)), 30)))]

\* variant: rotation.y assigned from the elapsed time, the same as the increment at 60 fps
OrganicBlobFrameFromTime(m, t) ==
    LET r == m.mesh.rotation
    IN  [m EXCEPT !.mesh.rotation = Vec(FMul(Sin(FMul(t, 200)), 10), FMul(t, 125), r[3])]

OrganicBlobFrame(m, t) ==
    LET r == m.mesh.rotation
    IN  [m EXCEPT !.mesh.rotation = Vec(FMul(Sin(FMul(t, 200)), 10), r[2] + 2000, r[3])]

LeafShapeFrame(m, t) ==
    LET r == m.mesh.rotation
    IN  [m EXCEPT !.mesh.rotation = Vec(r[1], r[2] + 3000, FMul(Sin(FMul(t, 300)), 15))]

\* variant: rotation.y += t * 0.02
ParticleFieldFrameAccumulates(p, t) ==
    [p EXCEPT !.rotation = Vec(FMul(Sin(FMul(t, 10)), 10), FAdd(p.rotation[2], FMul(t, 20)),
                               p.rotation[3]),
              !.seenT = t]

ParticleFieldFrame(p, t) ==
    [p EXCEPT !.rotation = Vec(FMul(Sin(FMul(t, 10)), 10), FMul(t, 20), p.rotation[3]),
              !.seenT = t]

\* the callback a mesh's component registered with useFrame
useFrame(m, t) ==
    LET n == CASE m.kind = "CosmicOrb"      -> CosmicOrbFrame(m, t)
               [] m.kind = "FloatingRing"   -> FloatingRingFrame(m, t)
               [] m.kind = "NeonTorus"      -> NeonTorusFrame(m, t)
               [] m.kind = "NeonOctahedron" -> NeonOctahedronFrame(m, t)
               [] m.kind = "GeoBlock"       -> GeoBlockFrame(m, t)
               [] m.kind = "GeoCylinder"    -> GeoCylinderFrame(m, t)
               [] m.kind = "GeoSphere"      -> GeoSphereFrame(m, t)
               [] m.kind = "GlassOrb"       -> GlassOrbFrame(m, t)
               [] m.kind = "OrganicBlob"    -> OrganicBlobFrame(m, t)
               [] m.kind = "LeafShape"      -> LeafShapeFrame(m, t)
    IN  [n EXCEPT !.seenT = t]

\* -------------------------------------------------------------- the clock

\* the frame loop advances the clock by the measured frame time, once, before the callbacks
AdvanceClock(clk, dt) == FAdd(clk, dt)

\* state.clock.elapsedTime: the value a callback reads
elapsedTime(clk) == clk

\* variant: the read is clock.getElapsedTime(), which advances the clock to now
AfterReadAdvances(clk) == FAdd(clk, 1)

\* the clock after a callback read it (a property read, not getElapsedTime())
AfterRead(clk) == clk

\* variant: neighbouring instances of one component share a ref, so the callback of the
\* earlier instance writes into the mesh of the later one as well
RECURSIVE RunCallbacksShared(_, _, _)
RunCallbacksShared(ms, i, clk) ==
    IF i > Len(ms) THEN [ent |-> <<>>, clock |-> clk]
    ELSE LET own == useFrame(ms[i], elapsedTime(clk))
             m   == IF i > 1 /\ ms[i - 1].kind = ms[i].kind
                    THEN useFrame(own, elapsedTime(clk)) ELSE own
         IN  [RunCallbacksShared(ms, i + 1, AfterRead(clk)) EXCEPT !.ent = <<m>> \o @]

\* variant: the frame is cut short before the last subscribed callback
RECURSIVE RunCallbacksPartial(_, _, _)
RunCallbacksPartial(ms, i, clk) ==
    IF i > Len(ms) THEN [ent |-> <<>>, clock |-> clk]
    ELSE LET m == IF i = Len(ms) THEN ms[i] ELSE useFrame(ms[i], elapsedTime(clk))
         IN  [RunCallbacksPartial(ms, i + 1, AfterRead(clk)) EXCEPT !.ent = <<m>> \o @]

\* the subscribed callbacks of one frame, in subscription order, the clock threaded through
RECURSIVE RunCallbacks(_, _, _)
RunCallbacks(ms, i, clk) ==
    IF i > Len(ms) THEN [ent |-> <<>>, clock |-> clk]
    ELSE LET m == useFrame(ms[i], elapsedTime(clk))
         IN  [RunCallbacks(ms, i + 1, AfterRead(clk)) EXCEPT !.ent = <<m>> \o @]

\* variant: no wrapper group, the sway written into the mesh's own position
RunFrameFloatOnMesh(s, clk) ==
    LET a  == RunCallbacks(s.ent, 1, clk)
        t  == elapsedTime(a.clock)
        pt == IF s.points = <<>> THEN <<>>
              ELSE [c \in {t} |-> <<ParticleFieldFrame(s.points[1], c)>>][t]
        c  == IF s.points = <<>> THEN a.clock ELSE AfterRead(a.clock)
        fl == [i \in 1..Len(s.floats) |-> FloatFrame(s.floats[i], elapsedTime(clk))]
    IN  [s EXCEPT !.ent = [i \in 1..Len(a.ent) |->
                             [a.ent[i] EXCEPT !.mesh.position[2] = FAdd(@, fl[i].position[2])]],
                  !.points = pt, !.elapsed = c, !.floats = fl]

\* variant: one phase for the whole scene, every wrapper swaying from the first one's offset
RunFrameSharedPhase(s, clk) ==
    LET a  == RunCallbacks(s.ent, 1, clk)
        t  == elapsedTime(a.clock)
        pt == IF s.points = <<>> THEN <<>>
              ELSE [c \in {t} |-> <<ParticleFieldFrame(s.points[1], c)>>][t]
        c  == IF s.points = <<>> THEN a.clock ELSE AfterRead(a.clock)
        fl == [i \in 1..Len(s.floats) |->
                 [FloatFrame([s.floats[i] EXCEPT !.offset = s.floats[1].offset],
                             elapsedTime(clk))
                  EXCEPT !.offset = s.floats[i].offset]]
    IN  [s EXCEPT !.ent = a.ent, !.points = pt, !.elapsed = c, !.floats = fl]

\* one frame over a scene s whose clock already reads clk (the scene v and the
\* callbacks' result a are each evaluated once)
RunFrame(s, clk) ==
    CHOOSE r \in
        { CHOOSE q \in
            { LET t  == elapsedTime(a.clock)
                  pt == IF v.points = <<>> THEN <<>>
                        ELSE [c \in {t} |-> <<ParticleFieldFrame(v.points[1], c)>>][t]
                  c  == IF v.points = <<>> THEN a.clock ELSE AfterRead(a.clock)
                  fl == [i \in 1..Len(v.floats) |->
                           FloatFrame(v.floats[i], elapsedTime(clk))]
              IN  [v EXCEPT !.ent = a.ent, !.points = pt, !.elapsed = c, !.floats = fl] :
              a \in {RunCallbacks(v.ent, 1, clk)} } : TRUE :
          v \in {s} } : TRUE

\* what is drawn for mesh i of scene s: the wrapper's sway added to the mesh's own
\* transform (final transform = inner animator's transform + oscillator's offset)
Displayed(s, i) ==
    [ rotation |-> [k \in 1..3 |-> FAdd(s.ent[i].mesh.rotation[k], s.floats[i].rotation[k])],
      position |-> [k \in 1..3 |-> FAdd(s.ent[i].mesh.position[k], s.floats[i].position[k])] ]

\* the sway a wrapper holds
Sway(f) == <<f.rotation, f.position>>

\* the pairs of wrapped meshes with identical speed and intensity props that
\* took different draws of the stream
Twins(fs) ==
    { p \in (1..Len(fs)) \X (1..Len(fs)) :
        /\ p[1] < p[2]
        /\ p[2] - p[1] < RandPeriod
        /\ fs[p[1]].wrapped /\ fs[p[2]].wrapped
        /\ fs[p[1]].speed = fs[p[2]].speed
        /\ fs[p[1]].rotationIntensity = fs[p[2]].rotationIntensity
        /\ fs[p[1]].floatIntensity = fs[p[2]].floatIntensity }

\* variant: the callback tests the ref first, if (!ref.current) return
DerefGuarded(s) == s

\* a callback run for a released mesh: React has reset ref.current to null, and
\* ref.current.rotation throws an uncaught TypeError before anything is written
DerefNull(s) == [s EXCEPT !.crashed = TRUE]

\* ---------------------------------------------------------- scene lifecycle

\* the scene-owned part of the state, as one record
Cur ==
    [ mounted   |-> mounted,
      running   |-> running,
      elapsed   |-> elapsed,
      ent       |-> ent,
      positions |-> positions,
      points    |-> points,
      lights    |-> lights,
      floats    |-> floats,
      scrolled  |-> scrolled,
      listening |-> listening,
      crashed   |-> crashed,
      failed    |-> failed ]

Commit(s) ==
    \E v \in {s} :
        /\ mounted' = v.mounted
        /\ running' = v.running
        /\ elapsed' = v.elapsed
        /\ ent' = v.ent
        /\ positions' = v.positions
        /\ points' = v.points
        /\ lights' = v.lights
        /\ floats' = v.floats
        /\ scrolled' = v.scrolled
        /\ listening' = v.listening
        /\ crashed' = v.crashed
        /\ failed' = v.failed

\* variant: the Canvas created with frameloop="never", its loop never started
MountScenePaused(s, d, isDark, n, rnd) ==
    LET sc == Render(d, isDark)
    IN  IF sc.field /\ ~Float32Array(n * 3)
        THEN [s EXCEPT !.failed = TRUE]
        ELSE [ mounted   |-> d,
               running   |-> FALSE,
               elapsed   |-> 0,
               ent       |-> sc.ent,
               positions |-> IF sc.field THEN GeneratePositions(n, rnd) ELSE <<>>,
               points    |-> IF sc.field THEN <<Points(isDark)>> ELSE <<>>,
               lights    |-> sc.lights,
               floats    |-> Floats(sc.ent, seeds),
               scrolled  |-> FALSE,
               listening |-> TRUE,
               crashed   |-> s.crashed,
               failed    |-> s.failed ]

\* variant: one clock shared by the scenes, carried over from the scene that was shown
MountSceneSharedClock(s, d, isDark, n, rnd) ==
    LET sc == Render(d, isDark)
    IN  IF sc.field /\ ~Float32Array(n * 3)
        THEN [s EXCEPT !.failed = TRUE]
        ELSE [ mounted   |-> d,
               running   |-> TRUE,
               elapsed   |-> elapsed,
               ent       |-> sc.ent,
               positions |-> IF sc.field THEN GeneratePositions(n, rnd) ELSE <<>>,
               points    |-> IF sc.field THEN <<Points(isDark)>> ELSE <<>>,
               lights    |-> sc.lights,
               floats    |-> Floats(sc.ent, seeds),
               scrolled  |-> FALSE,
               listening |-> TRUE,
               crashed   |-> s.crashed,
               failed    |-> s.failed ]

\* Design d's element enters the tree: a new Canvas with its own clock at 0, new meshes,
\* the particle positions generated by the first render, the callbacks subscribed.
\* When the first render of ParticleField throws, nothing of the design is committed
\* and the error, caught by no boundary, takes the whole root down.
MountScene(s, d, isDark, n, rnd) ==
    LET sc == Render(d, isDark)
    IN  IF sc.field /\ ~Float32Array(n * 3)
        THEN [s EXCEPT !.failed = TRUE]
        ELSE [ mounted   |-> d,
               running   |-> TRUE,
               elapsed   |-> 0,
               ent       |-> sc.ent,
               positions |-> IF sc.field THEN GeneratePositions(n, rnd) ELSE <<>>,
               points    |-> IF sc.field THEN <<Points(isDark)>> ELSE <<>>,
               lights    |-> sc.lights,
               floats    |-> Floats(sc.ent, seeds),
               scrolled  |-> FALSE,
               listening |-> TRUE,
               crashed   |-> s.crashed,
               failed    |-> s.failed ]

\* variant: the callbacks stay subscribed
UnmountSceneKeepsLoop(s) ==
    [s EXCEPT !.mounted = 0, !.elapsed = 0, !.ent = <<>>,
              !.positions = <<>>, !.points = <<>>, !.lights = <<>>,
              !.floats = <<>>, !.listening = FALSE]

\* variant: the loop is toggled rather than stopped
UnmountSceneToggles(s) ==
    [s EXCEPT !.mounted = 0, !.running = ~s.running, !.elapsed = 0, !.ent = <<>>,
              !.positions = <<>>, !.points = <<>>, !.lights = <<>>,
              !.floats = <<>>, !.listening = FALSE]

\* variant: Nav's effect returns no cleanup, the scroll handler stays on window
UnmountSceneKeepsListener(s) ==
    [s EXCEPT !.mounted = 0, !.running = FALSE, !.elapsed = 0, !.ent = <<>>,
              !.positions = <<>>, !.points = <<>>, !.lights = <<>>,
              !.floats = <<>>]

\* the route element leaves the tree: callbacks unsubscribed, refs cleared, scene released,
\* Nav's effect cleanup removing its scroll handler
UnmountScene(s) ==
    [s EXCEPT !.mounted = 0, !.running = FALSE, !.elapsed = 0, !.ent = <<>>,
              !.positions = <<>>, !.points = <<>>, !.lights = <<>>,
              !.floats = <<>>, !.listening = FALSE]

\* variant: the element is memoised and the new props never reach the object
ReconcileStale(old, new) == old

\* variant: the element is re-created, its props applied to a new object
ReconcileRemount(old, new) == new

\* variant: the points object is re-created
ReconcilePointsReset(old, new) == new

\* a re-rendered element keeps its THREE object; only changed props are applied to it
Reconcile(old, new) == [new EXCEPT !.mesh = old.mesh, !.seenT = old.seenT]

ReconcilePoints(old, new) == [new EXCEPT !.rotation = old.rotation, !.seenT = old.seenT]

\* the mounted design renders again under a new theme
Rerender(s, isDark, n, rnd) ==
    LET sc == Render(s.mounted, isDark)
    IN  [s EXCEPT
            !.ent = [i \in 1..Len(s.ent) |-> Reconcile(s.ent[i], sc.ent[i])],
            !.lights = sc.lights,
            !.positions = IF sc.field THEN useMemo(s.positions, n, n, rnd) ELSE <<>>,
            !.points = IF sc.field THEN <<ReconcilePoints(s.points[1], Points(isDark))>>
                       ELSE <<>>]

RandomStreams == [0..(RandPeriod - 1) -> RandVals]

\* the streams design d's first render can tell apart: only ParticleField's useMemo
\* reads Math.random() there, and a design without the field reads nothing
Draws(d) ==
    IF Render(d, TRUE).field THEN RandomStreams ELSE {[i \in 0..(RandPeriod - 1) |-> 0]}

Min(a, b) == IF a < b THEN a ELSE b

\* the tree after the location became one that routes to design d (0: the redirect),
\* ld the lazy modules resolved by then
Enter(d, ld) ==
    LET gone == UnmountScene(Cur)
    IN  IF d \in ld
        THEN /\ \E rnd \in Draws(d) :
                    Commit(MountScene(gone, d, IsDark(theme), count, rnd))
             /\ hist' = <<>>
             /\ unmounts' = 0
        ELSE /\ Commit(gone)
             /\ hist' = hist
             /\ unmounts' = Min(unmounts + 1, MaxUnmounts)

\* ----------------------------------------------------------------- actions

\* the user follows a link or enters a URL
Navigate(p) ==
    /\ ~failed
    /\ p # path
    /\ path' = p
    /\ Enter(RouteOf(p), loaded)
    /\ last' = "navigate"
    /\ UNCHANGED <<loaded, theme, count, seeds, scrollY>>

\* <Route path="*" element={<Navigate to="/1" replace />} />
Redirect ==
    /\ ~failed
    /\ RouteOf(path) = 0
    /\ path' = RedirectTarget
    /\ Enter(RouteOf(RedirectTarget), loaded)
    /\ last' = "redirect"
    /\ UNCHANGED <<loaded, theme, count, seeds, scrollY>>

\* the lazy() import of the routed design resolves and Suspense shows it
Resolve ==
    /\ ~failed
    /\ RouteOf(path) # 0
    /\ RouteOf(path) \notin loaded
    /\ loaded' = loaded \cup {RouteOf(path)}
    /\ Enter(RouteOf(path), loaded')
    /\ last' = "resolve"
    /\ UNCHANGED <<path, theme, count, seeds, scrollY>>

\* ThemeToggle's onClick; every design re-renders with the new isDark
ToggleTheme ==
    /\ mounted # 0
    /\ theme' = toggleTheme(theme)
    /\ \E rnd \in RandomStreams : Commit(Rerender(Cur, IsDark(theme'), count, rnd))
    /\ last' = "toggle"
    /\ UNCHANGED <<path, loaded, count, hist, unmounts, seeds, scrollY>>

\* variant: a frame callback flips the theme mode
FrameTogglesTheme(clk) ==
    /\ running
    /\ hist' = Append(hist, clk)
    /\ mounted # 0
    /\ Commit(RunFrame(Cur, clk))
    /\ theme' = toggleTheme(theme)
    /\ UNCHANGED <<path, loaded, count, unmounts, seeds, scrollY>>

\* one frame whose clock reading is clk
Frame(clk) ==
    /\ running
    /\ hist' = Append(hist, clk)
    /\ IF mounted = 0
       THEN Commit(DerefNull(Cur))
       ELSE Commit(RunFrame(Cur, clk))
    /\ UNCHANGED <<path, loaded, theme, count, unmounts, seeds, scrollY>>

\* requestAnimationFrame fires dt ms after the previous frame
Tick ==
    /\ Len(hist) < MaxFrames
    /\ \E dt \in Deltas : Frame(AdvanceClock(elapsed, dt))
    /\ last' = "tick"

IsFixedRun(h) == \A i \in 1..Len(h) : h[i] = i * FixedStep

\* the scenario run: a design opened directly, frames at a fixed virtual step,
\* continued to ScenarioFrames
LongTick ==
    /\ loaded = {mounted}
    /\ Len(hist) >= MaxFrames
    /\ Len(hist) < ScenarioFrames
    /\ IsFixedRun(hist)
    /\ Frame(AdvanceClock(elapsed, FixedStep))
    /\ last' = "tick"

\* a frame callback of a scene that was shown and released is invoked once more
StrayTick ==
    /\ ~failed
    /\ mounted = 0
    /\ loaded # {}
    /\ Commit(DerefNull(Cur))
    /\ last' = "stray"
    /\ UNCHANGED <<path, loaded, theme, count, hist, unmounts, seeds, scrollY>>

ScrollPositions == {0, 50, 51}

\* const handler = () => setScrolled(window.scrollY > 50)
Handler(y) == y > 50

\* the page is scrolled to y and window dispatches the scroll event to its listeners
Scroll(y) ==
    /\ y # scrollY
    /\ scrollY' = y
    /\ scrolled' = IF listening THEN Handler(y) ELSE scrolled
    /\ last' = "scroll"
    /\ UNCHANGED <<path, loaded, mounted, running, theme, count, elapsed, ent, positions,
                   points, lights, crashed, failed, floats, seeds, listening, hist, unmounts>>

GlitchTimes == {NaN, -1000}

\* a frame for which a misbehaving host clock reads NaN or a negative time
GlitchTick ==
    /\ Len(hist) < MaxFrames
    /\ \E t \in GlitchTimes : Frame(t)
    /\ last' = "glitch"

Init ==
    /\ path \in Paths
    /\ loaded = {}
    /\ mounted = 0
    /\ running = FALSE
    /\ theme \in Themes
    /\ count = DefaultCount
    /\ elapsed = 0
    /\ ent = <<>>
    /\ positions = <<>>
    /\ points = <<>>
    /\ lights = <<>>
    /\ floats = <<>>
    /\ seeds = [i \in 0..(RandPeriod - 1) |-> 0]
    /\ scrollY = 0
    /\ scrolled = FALSE
    /\ listening = FALSE
    /\ crashed = FALSE
    /\ failed = FALSE
    /\ hist = <<>>
    /\ unmounts = 0
    /\ last = "init"

\* the same, the ParticleField given an explicit count prop, a negative one included
InitProps ==
    /\ path \in Paths
    /\ loaded = {}
    /\ mounted = 0
    /\ running = FALSE
    /\ theme \in Themes
    /\ count \in (-1..MaxCount) \cup {DefaultCount}
    /\ elapsed = 0
    /\ ent = <<>>
    /\ positions = <<>>
    /\ points = <<>>
    /\ lights = <<>>
    /\ floats = <<>>
    /\ seeds = [i \in 0..(RandPeriod - 1) |-> 0]
    /\ scrollY = 0
    /\ scrolled = FALSE
    /\ listening = FALSE
    /\ crashed = FALSE
    /\ failed = FALSE
    /\ hist = <<>>
    /\ unmounts = 0
    /\ last = "init"

\* the same, the <Float> instances given any draws of Math.random(), equal ones included
InitFloat ==
    /\ path \in Paths
    /\ loaded = {}
    /\ mounted = 0
    /\ running = FALSE
    /\ theme \in Themes
    /\ count = DefaultCount
    /\ elapsed = 0
    /\ ent = <<>>
    /\ positions = <<>>
    /\ points = <<>>
    /\ lights = <<>>
    /\ floats = <<>>
    /\ seeds \in RandomStreams
    /\ scrollY = 0
    /\ scrolled = FALSE
    /\ listening = FALSE
    /\ crashed = FALSE
    /\ failed = FALSE
    /\ hist = <<>>
    /\ unmounts = 0
    /\ last = "init"

Next ==
    \/ \E p \in Paths : Navigate(p)
    \/ Redirect
    \/ Resolve
    \/ ToggleTheme
    \/ Tick

\* the renders of the scene alone: mounts, unmounts and theme re-renders, no frames
NextProps ==
    \/ \E p \in Paths : Navigate(p)
    \/ Redirect
    \/ Resolve
    \/ ToggleTheme

\* one design opened and watched: its import resolving, theme toggles, frames
NextFloat ==
    \/ Redirect
    \/ Resolve
    \/ ToggleTheme
    \/ Tick

\* the pages opened and scrolled, no frames
NextScroll ==
    \/ \E p \in Paths : Navigate(p)
    \/ Redirect
    \/ Resolve
    \/ \E y \in ScrollPositions : Scroll(y)

NextLong == Next \/ LongTick

NextGlitch == Next \/ GlitchTick

NextStray == Next \/ StrayTick

Spec == Init /\ [][Next]_vars

SpecProps == InitProps /\ [][NextProps]_vars

SpecLong == Init /\ [][NextLong]_vars

SpecGlitch == Init /\ [][NextGlitch]_vars

SpecScroll == Init /\ [][NextScroll]_vars

SpecFloat == InitFloat /\ [][NextFloat]_vars

SpecStray == Init /\ [][NextStray]_vars

\* the Canvas loop (frameloop "always") requests the next animation frame on every frame,
\* and the browser keeps serving the requests: a frame that stays due is delivered
SpecLive == Init /\ [][Next]_vars /\ WF_vars(Tick)

\* ------------------------------------------------------- reference runs

\* the rotation and position of every mesh, and the rotation of the particle field
Transforms(s) ==
    [ ent    |-> [i \in 1..Len(s.ent) |-> s.ent[i].mesh],
      points |-> [i \in 1..Len(s.points) |-> s.points[i].rotation] ]

\* design d as just mounted under the given theme (the particle positions left aside)
Fresh(d, isDark) == MountScene(UnmountScene(Cur), d, isDark, 0, [i \in 0..(RandPeriod - 1) |-> 0])

\* the scene s after frames at the clock readings h[i], h[i+1], ...
RECURSIVE Replay(_, _, _)
Replay(s, h, i) == IF i > Len(h) THEN s ELSE Replay(RunFrame(s, h[i]), h, i + 1)

\* every second reading of h: the frames of a loop running at half the rate over the same time
EveryOther(h) == [i \in 1..(Len(h) \div 2) |-> h[2 * i]]

\* ------------------------------------------------------------------ claims

\* C1: once the scene is unmounted no frame callback runs again: a step taken with no
\* scene mounted delivers no frame (the frame history only restarts, empty, at a mount),
\* and while no scene is mounted the meshes, the particle field and the clock stay as
\* the unmount left them.
C1_NoFrameAfterUnmount ==
    [][ mounted = 0 =>
          /\ (hist' # hist => (mounted' # 0 /\ hist' = <<>>))
          /\ (mounted' = 0 => UNCHANGED <<ent, points, positions, elapsed, crashed>>) ]_vars

\* a scene that received frames has been unmounted
C1_Witness == mounted = 0 /\ Len(hist) > 0 /\ unmounts = 1 /\ last = "navigate"

\* C2: frame-rate independence: the scene after 2n frames has the same rotations and
\* positions as a scene that received only every second one of those frames (n frames
\* over the same elapsed time).
C2_FrameRateIndependent ==
    (mounted # 0 /\ Len(hist) > 0 /\ Len(hist) % 2 = 0)
        => Transforms(Cur) = Transforms(Replay(Fresh(mounted, IsDark(theme)), EveryOther(hist), 1))

\* C3: determinism: whatever else happened since the mount (theme switches, the random
\* particle positions), the rotations and positions of the mounted scene are those of a
\* fresh scene, under either theme, given the same sequence of clock readings.
C3_Deterministic ==
    mounted # 0 =>
        \A th \in Themes :
            Transforms(Cur) = Transforms(Replay(Fresh(mounted, IsDark(th)), hist, 1))

\* the theme was switched on a scene that had received all its frames
C3_Witness == mounted # 0 /\ Len(hist) = MaxFrames /\ last = "toggle"

\* C4: an orb of speed s after n frames, the last at elapsed time t, has
\* rotation.x = sin(t * s * 0.3) * 0.2 and rotation.y = n * 0.003 * s; with s = 1 and
\* n = 100, rotation.y = 0.3.
C4_OrbRotation ==
    mounted = 1 =>
        \A i \in 1..Len(ent) :
            ent[i].kind = "CosmicOrb" =>
                /\ ent[i].mesh.rotation[2] = Len(hist) * 300 * ent[i].speed
                /\ (Len(hist) > 0 =>
                       ent[i].mesh.rotation[1] = Sin(elapsed * ent[i].speed * 30) * 20)
                /\ ((ent[i].speed = 10 /\ Len(hist) = 100) =>
                       ent[i].mesh.rotation[2] = 300000)

\* the speed-1 orb after 100 frames
C4_Witness ==
    /\ mounted = 1
    /\ Len(hist) = 100
    /\ ent[4].speed = 10
    /\ ent[4].mesh.rotation[2] = 300000
    /\ ent[4].mesh.rotation[1] # 0

\* C5: the particle field holds 3 * count coordinates, x and y within [-10, 10] and z
\* within [-5, 5], for the default count and for every other count.
C5_ParticleBounds ==
    mounted = 1 =>
        /\ Len(positions) = 3 * count
        /\ \A j \in 1..Len(positions) :
              IF (j - 1) % 3 = 2
              THEN positions[j] >= -5000000 /\ positions[j] <= 5000000
              ELSE positions[j] >= -10000000 /\ positions[j] <= 10000000

\* the default 200 particles, one of them on the boundary of the volume
C5_Witness ==
    /\ mounted = 1
    /\ count = DefaultCount
    /\ Len(positions) = 600
    /\ \E j \in 1..Len(positions) : positions[j] = -10000000

\* C6: the particle positions are generated once per mount: no step that leaves the
\* scene mounted (a frame, a theme switch) changes any position, and a frame changes
\* nothing of the field but its rotation.x and rotation.y.
C6_PositionsFixed ==
    [][ (mounted # 0 /\ mounted' = mounted /\ last' \in {"tick", "toggle"}) =>
          /\ positions' = positions
          /\ Len(points') = Len(points)
          /\ ((last' = "tick" /\ points # <<>>) =>
                 /\ points'[1].rotation[3] = points[1].rotation[3]
                 /\ points'[1].color = points[1].color
                 /\ points'[1].size = points[1].size) ]_vars

\* the field of a scene that was re-rendered after its frames
C6_Witness ==
    /\ mounted = 1
    /\ last = "toggle"
    /\ Len(positions) = 3 * DefaultCount
    /\ points[1].rotation[2] # 0

\* C7: a theme switch on a mounted scene changes nothing but colors: base positions,
\* sizes, current transforms, particle positions and light placement are as before.
C7_ThemeChangesOnlyColors ==
    [][ (theme' # theme /\ mounted # 0) =>
          /\ mounted' = mounted
          /\ positions' = positions
          /\ elapsed' = elapsed
          /\ Len(ent') = Len(ent)
          /\ \A i \in 1..Len(ent) : [ent'[i] EXCEPT !.color = ent[i].color] = ent[i]
          /\ Len(points') = Len(points)
          /\ \A i \in 1..Len(points) : [points'[i] EXCEPT !.color = points[i].color] = points[i]
          /\ Len(lights') = Len(lights)
          /\ \A i \in 1..Len(lights) : [lights'[i] EXCEPT !.color = lights[i].color] = lights[i] ]_vars

\* the Cosmic scene switched to dark after frames moved its meshes
C7_Witness ==
    /\ mounted = 1
    /\ last = "toggle"
    /\ theme = "dark"
    /\ Len(hist) > 0
    /\ ent[1].color = "#7c3aed"
    /\ ent[1].mesh.rotation[2] # 0

C9_InvalidClockIgnored ==
    [][ last' = "glitch" =>
          /\ Transforms(Cur)' = Transforms(Cur)
          /\ crashed' = crashed ]_vars

\* C10: in a frame the clock is advanced first, by the frame time, and every mesh
\* callback and the particle field's callback read that same advanced value; the
\* reads leave the clock where the advance put it.
C10_OneClockPerFrame ==
    [][ (last' = "tick" /\ mounted # 0) =>
          /\ \E dt \in Deltas : elapsed' = elapsed + dt
          /\ hist' = Append(hist, elapsed')
          /\ \A i \in 1..Len(ent') : ent'[i].seenT = elapsed'
          /\ \A i \in 1..Len(points') : points'[i].seenT = elapsed' ]_vars

\* a second frame of the Cosmic scene, all seven callbacks having read the clock
C10_Witness ==
    /\ mounted = 1
    /\ last = "tick"
    /\ Len(hist) = 2
    /\ elapsed > 0
    /\ points[1].seenT = elapsed
    /\ ent[1].seenT = elapsed

C12_ThemeWrittenOnlyByToggle ==
    [][ /\ (theme' # theme => last' = "toggle")
        /\ (last' \in {"tick", "navigate", "redirect", "resolve"} => theme' = theme) ]_vars

\* a scene built under the dark theme has received a frame and still shows the dark colours
C12_Witness ==
    /\ mounted = 1
    /\ last = "tick"
    /\ theme = "dark"
    /\ ent[1].color = "#7c3aed"
    /\ points[1].color = "#c4b5fd"

\* C13: the mounted skin is the one the path names and there is never a second one: at
\* path /k nothing but Design k is mounted, and Design k is mounted as soon as its module
\* has loaded; at any other path nothing is mounted and the redirect leads to /1; the
\* meshes present are those of the mounted design alone (so the scene of a skin navigated
\* away from is gone), and only Design 1 has a particle field.
C13_MountedSkinFollowsPath ==
    LET k == CASE path = "/1" -> 1
               [] path = "/2" -> 2
               [] path = "/3" -> 3
               [] path = "/4" -> 4
               [] path = "/5" -> 5
               [] OTHER -> 0
        kinds == << {"CosmicOrb", "FloatingRing"},
                    {"GeoBlock", "GeoCylinder", "GeoSphere"},
                    {"GlassOrb"},
                    {"NeonTorus", "NeonOctahedron"},
                    {"OrganicBlob", "LeafShape"} >>
    IN  /\ mounted \in {0, k}
        /\ (k \in loaded => mounted = k)
        /\ (k = 0 => (mounted = 0 /\ ent = <<>> /\ points = <<>> /\ lights = <<>>))
        /\ (last = "redirect" => path = "/1")
        /\ (mounted # 0 =>
                /\ ent # <<>>
                /\ \A i \in 1..Len(ent) : ent[i].kind \in kinds[mounted]
                /\ (points # <<>>) = (mounted = 1))
        /\ (mounted = 0 => (ent = <<>> /\ points = <<>>))

\* Design 2 was mounted by a navigation to /2 after Design 1 had been on screen
C13_Witness ==
    /\ path = "/2"
    /\ mounted = 2
    /\ last = "navigate"
    /\ 1 \in loaded
    /\ Len(ent) = 5

\* C14: the frame loop has two states only, running exactly while a scene is mounted; a
\* step that mounts a scene leaves its clock at 0 with no frame delivered yet; and while
\* the same scene stays mounted the clock never goes back: each frame reads the clock
\* value the scene then has, which is at least the value the previous frame read.
C14_SchedulerLifecycle ==
    [][ /\ running' = (mounted' # 0)
        /\ ((mounted' # 0 /\ last' \in {"navigate", "redirect", "resolve"}) =>
                (elapsed' = 0 /\ hist' = <<>>))
        /\ ((mounted # 0 /\ mounted' = mounted /\ last' \in {"tick", "toggle"}) =>
                elapsed' >= elapsed)
        /\ (last' = "tick" =>
                /\ mounted' = mounted
                /\ mounted # 0
                /\ elapsed' = hist'[Len(hist')]
                /\ (Len(hist) > 0 => hist'[Len(hist')] >= hist[Len(hist)])) ]_vars

\* a second scene, mounted after Design 1 had run, has received two frames at increasing times
C14_Witness ==
    /\ mounted = 3
    /\ 1 \in loaded
    /\ last = "tick"
    /\ Len(hist) = 2
    /\ hist[2] > hist[1]
    /\ hist[1] > 0

\* C15: a frame reaches every entity of the scene or none: in every state all meshes and
\* the particle field of the mounted scene have received the same latest frame (none
\* before the first), and once the unmount is done no entity is left at all, so no state
\* shows a scene some of whose entities got a frame the others did not.
C15_FrameAppliedToAllOrNone ==
    LET t == IF hist = <<>> THEN 0 ELSE hist[Len(hist)]
    IN  /\ (mounted # 0 =>
                /\ \A i \in 1..Len(ent) : ent[i].seenT = t
                /\ \A j \in 1..Len(points) : points[j].seenT = t)
        /\ (mounted = 0 => (ent = <<>> /\ points = <<>> /\ ~running))

\* the scene was unmounted right after its first frame
C15_Witness ==
    /\ mounted = 0
    /\ last = "navigate"
    /\ Len(hist) = 1
    /\ hist[1] = FixedStep
    /\ ent = <<>>

\* C16: a frame callback invoked for an entity whose scene has been unmounted fails with
\* an uncaught error and writes nothing: after it no scene is mounted, no mesh, particle
\* field or position array has come back, and the clock, the frame history and the loop
\* are as they were.
C16_StrayTickFails ==
    [][ last' = "stray" =>
          /\ crashed'
          /\ mounted' = 0
          /\ ent' = <<>>
          /\ points' = <<>>
          /\ positions' = <<>>
          /\ lights' = <<>>
          /\ UNCHANGED <<running, elapsed, hist, path, theme>> ]_vars

\* a callback of a scene that had received frames was invoked after the unmount and threw
C16_Witness ==
    /\ last = "stray"
    /\ crashed
    /\ mounted = 0
    /\ Len(hist) > 0

\* C17: while a scene stays mounted the frame loop keeps going: Design d never stays
\* mounted for ever with the same k frames received (k below the number of frames the
\* model delivers); and a step that leaves that situation without unmounting the scene
\* is the delivery of one further frame, which ran the callback of every mesh and of
\* the particle field.
C17_FrameLoopKeepsRunning ==
    /\ \A d \in Designs : \A k \in 0..(MaxFrames - 1) :
            []<>~(mounted = d /\ Len(hist) = k)
    /\ [][ (mounted # 0 /\ mounted' = mounted /\ hist' # hist) =>
              /\ last' = "tick"
              /\ Len(hist') = Len(hist) + 1
              /\ \A i \in 1..Len(ent') : ent'[i].seenT = hist'[Len(hist')]
              /\ \A j \in 1..Len(points') : points'[j].seenT = hist'[Len(hist')] ]_vars

\* Design 4 has received a frame after its first one
C17_Witness ==
    /\ mounted = 4
    /\ last = "tick"
    /\ Len(hist) = MaxFrames
    /\ \A i \in 1..Len(ent) : ent[i].seenT = elapsed

\* C18: the colours of the mounted scene are those configured for the current theme mode:
\* every mesh colour, every light and the particle colour equal what the design renders
\* under the mode in force (for Design 1: first orb, second orb, first ring, directional
\* light and particles each have their dark or their light colour), and the meshes and
\* particles are the ones created at the mount: they keep the frame they last received
\* and the position array keeps its length.
C18_ColorsFollowTheme ==
    mounted # 0 =>
        LET dark == theme = "dark"
            sc   == Render(mounted, dark)
            t    == IF hist = <<>> THEN 0 ELSE hist[Len(hist)]
        IN  /\ Len(ent) = Len(sc.ent)
            /\ \A i \in 1..Len(ent) : ent[i].color = sc.ent[i].color /\ ent[i].seenT = t
            /\ lights = sc.lights
            /\ (mounted = 1 =>
                    /\ ent[1].color = (IF dark THEN "#7c3aed" ELSE "#a78bfa")
                    /\ ent[2].color = (IF dark THEN "#6366f1" ELSE "#818cf8")
                    /\ ent[5].color = (IF dark THEN "#a78bfa" ELSE "#7c3aed")
                    /\ lights[2].color = (IF dark THEN "#a78bfa" ELSE "#7c3aed")
                    /\ Len(points) = 1
                    /\ points[1].color = (IF dark THEN "#c4b5fd" ELSE "#7c3aed")
                    /\ points[1].seenT = t
                    /\ Len(positions) = 3 * count)

\* Design 1, after frames, was switched to the light theme and shows the light colours
C18_Witness ==
    /\ mounted = 1
    /\ last = "toggle"
    /\ theme = "light"
    /\ Len(hist) > 0
    /\ ent[1].color = "#a78bfa"
    /\ points[1].color = "#7c3aed"

\* C19: after a frame at elapsed time t each ring of Design 1 has rotation.x = t * 0.2 and
\* rotation.z = sin(t * 0.3) * 0.5, whatever the number of frames before it and whatever
\* their times; rotation.y stays 0, and before the first frame the rotation is 0.
C19_RingRotation ==
    mounted = 1 =>
        \A i \in 1..Len(ent) :
            ent[i].kind = "FloatingRing" =>
                /\ ent[i].mesh.rotation[2] = 0
                /\ (Len(hist) = 0 => ent[i].mesh.rotation = <<0, 0, 0>>)
                /\ (Len(hist) > 0 =>
                        /\ ent[i].mesh.rotation[1] = elapsed * 200
                        /\ ent[i].mesh.rotation[3] = Sin(elapsed * 300) * 50)

\* the rings at the end of the scenario run: 1.6 s, rotation.x = 0.32
C19_Witness ==
    /\ mounted = 1
    /\ Len(hist) = ScenarioFrames
    /\ ent[5].kind = "FloatingRing"
    /\ ent[6].kind = "FloatingRing"
    /\ ent[5].mesh.rotation[1] = ScenarioFrames * FixedStep * 200
    /\ ent[5].mesh.rotation[3] # 0

\* C20: an octahedron of Design 4 after n frames since the mount, the last at elapsed time
\* t, has rotation.y = n * 0.01 and rotation.z = sin(t * 0.4) * 0.3, and rotation.x is
\* still 0.
C20_OctahedronRotation ==
    mounted = 4 =>
        \A i \in 1..Len(ent) :
            ent[i].kind = "NeonOctahedron" =>
                /\ ent[i].mesh.rotation[1] = 0
                /\ ent[i].mesh.rotation[2] = Len(hist) * 10000
                /\ (Len(hist) = 0 => ent[i].mesh.rotation[3] = 0)
                /\ (Len(hist) > 0 => ent[i].mesh.rotation[3] = Sin(elapsed * 400) * 30)

\* the octahedra at the end of the scenario run: 100 frames, rotation.y = 1.0
C20_Witness ==
    /\ mounted = 4
    /\ Len(hist) = ScenarioFrames
    /\ ent[3].kind = "NeonOctahedron"
    /\ ent[4].kind = "NeonOctahedron"
    /\ ent[3].mesh.rotation[2] = ScenarioFrames * 10000
    /\ ent[3].mesh.rotation[3] # 0

\* C21: an organic blob of Design 5 after n frames since the mount, the last at elapsed
\* time t, has rotation.y = n * 0.002 (so rotation.y only grows with the frames) and
\* rotation.x = sin(t * 0.2) * 0.1; rotation.z stays 0.
C21_BlobRotation ==
    mounted = 5 =>
        \A i \in 1..Len(ent) :
            ent[i].kind = "OrganicBlob" =>
                /\ ent[i].mesh.rotation[2] = Len(hist) * 2000
                /\ ent[i].mesh.rotation[3] = 0
                /\ (Len(hist) = 0 => ent[i].mesh.rotation[1] = 0)
                /\ (Len(hist) > 0 => ent[i].mesh.rotation[1] = Sin(elapsed * 200) * 10)

\* the blobs at the end of the scenario run: 100 frames, rotation.y = 0.2
C21_Witness ==
    /\ mounted = 5
    /\ Len(hist) = ScenarioFrames
    /\ ent[1].kind = "OrganicBlob"
    /\ ent[1].mesh.rotation[2] = ScenarioFrames * 2000
    /\ ent[1].mesh.rotation[1] # 0

\* C22: no callback moves a mesh off its base position except the vertical bob: in every
\* state of a mounted scene each mesh has the position prop its design gives it, its
\* position.x and position.z are those of the prop, and its position.y is the prop's y,
\* except for a glass orb or a Bauhaus sphere that has received a frame, whose position.y
\* is the prop's y plus sin(t * 0.5) * A for the time t of the latest frame (A = 0.3 for
\* the orb, 0.2 for the sphere), whatever the frames before it.
C22_BasePosition ==
    mounted # 0 =>
        LET sc == Render(mounted, IsDark(theme))
        IN  \A i \in 1..Len(ent) :
                LET base == sc.ent[i].position
                    pos  == ent[i].mesh.position
                    amp  == CASE ent[i].kind = "GlassOrb" -> 30
                              [] ent[i].kind = "GeoSphere" -> 20
                              [] OTHER -> 0
                IN  /\ ent[i].position = base
                    /\ pos[1] = base[1]
                    /\ pos[3] = base[3]
                    /\ pos[2] = (IF Len(hist) = 0 THEN base[2]
                                 ELSE base[2] + Sin(elapsed * 500) * amp)

\* a glass orb at the end of the scenario run, displaced vertically only
C22_Witness ==
    /\ mounted = 3
    /\ Len(hist) = ScenarioFrames
    /\ ent[1].kind = "GlassOrb"
    /\ ent[1].mesh.position[2] # ent[1].position[2]
    /\ ent[1].mesh.position[1] = -2500000
    /\ ent[1].mesh.position[3] = -1000000

\* C23: every entity owns its transform: over a frame the rotation and position of each
\* mesh become what its own callback makes of its own previous rotation and position at
\* that frame's time, and likewise the particle field's rotation; the callbacks of the
\* other entities of the scene, instances of the same component included, leave no
\* trace in it.
C23_TransformOwned ==
    [][ (last' = "tick" /\ mounted # 0) =>
          /\ Len(ent') = Len(ent)
          /\ \A i \in 1..Len(ent) :
                 /\ ent'[i].mesh = useFrame(ent[i], elapsed').mesh
                 /\ ent'[i].kind = ent[i].kind
          /\ Len(points') = Len(points)
          /\ \A j \in 1..Len(points) :
                 points'[j].rotation = ParticleFieldFrame(points[j], elapsed').rotation ]_vars

\* Design 4 after its first frame: each octahedron advanced by its own single increment
C23_Witness ==
    /\ mounted = 4
    /\ last = "tick"
    /\ Len(hist) = 1
    /\ ent[3].mesh.rotation[2] = 10000
    /\ ent[4].mesh.rotation[2] = 10000
    /\ ent[1].mesh.rotation = ent[2].mesh.rotation

C26_FieldRotationAccumulates ==
    [][ (last' = "tick" /\ points # <<>>) =>
          /\ points'[1].rotation[2] = FAdd(points[1].rotation[2], FMul(elapsed', 20))
          /\ points'[1].rotation[1] = FMul(Sin(FMul(elapsed', 10)), 10)
          /\ positions' = positions ]_vars

\* C26 amended: a frame at elapsed time t sets the particle field's rotation.y to
\* 0.02 * t, replacing the previous value, sets rotation.x = sin(t * 0.01) * 0.1, leaves
\* rotation.z alone, and leaves the particle positions alone.
C26_FieldRotationAssigned ==
    [][ (last' = "tick" /\ points # <<>>) =>
          /\ points'[1].rotation[2] = FMul(elapsed', 20)
          /\ points'[1].rotation[1] = FMul(Sin(FMul(elapsed', 10)), 10)
          /\ points'[1].rotation[3] = points[1].rotation[3]
          /\ positions' = positions ]_vars

\* the particle field after a second frame: rotation.y is 0.02 * t, not the running sum
C26_Witness ==
    /\ mounted = 1
    /\ last = "tick"
    /\ Len(hist) = 2
    /\ Len(positions) > 0
    /\ points[1].rotation[2] = 20 * hist[2]
    /\ points[1].rotation[2] # 20 * hist[1] + 20 * hist[2]
    /\ points[1].rotation[1] # 0

\* C27: a Bauhaus block or a botanical leaf built with base rotation (rx, ry, rz): after
\* n >= 1 frames, the last at elapsed time t, the assigned component is the sinusoid of
\* t alone (block rotation.x = sin(t * 0.3) * 0.1, leaf rotation.z = sin(t * 0.3) * 0.15),
\* rotation.y = ry + n * increment (0.005 block, 0.003 leaf), and the remaining component
\* (block rotation.z, leaf rotation.x) is the base value; before the first frame the
\* rotation is the base rotation.
C27_BaseRotation ==
    mounted \in {2, 5} =>
        \A i \in 1..Len(ent) :
            LET base == Render(mounted, IsDark(theme)).ent[i].mesh.rotation
                r    == ent[i].mesh.rotation
                n    == Len(hist)
            IN  /\ (n = 0 /\ ent[i].kind \in {"GeoBlock", "LeafShape"}) => r = base
                /\ (n > 0 /\ ent[i].kind = "GeoBlock") =>
                      r = Vec(Sin(elapsed * 300) * 10, base[2] + n * 5000, base[3])
                /\ (n > 0 /\ ent[i].kind = "LeafShape") =>
                      r = Vec(base[1], base[2] + n * 3000, Sin(elapsed * 300) * 15)

\* the block built with rotation (0.5, 0.5, 0) at the end of the scenario run: rotation.y
\* has grown from 0.5 to 1.0 and rotation.x is no longer 0.5
C27_Witness ==
    /\ mounted = 2
    /\ Len(hist) = ScenarioFrames
    /\ ent[2].kind = "GeoBlock"
    /\ Render(2, IsDark(theme)).ent[2].mesh.rotation = Vec(500000, 500000, 0)
    /\ ent[2].mesh.rotation[2] = 500000 + ScenarioFrames * 5000
    /\ ent[2].mesh.rotation[1] # 500000

\* C28: the ring, the neon torus, the cylinder and the particle field are
\* history-independent: after any frames since the mount, the last at elapsed time t,
\* their rotation is the one a scene has after a single frame at t, whatever the number
\* and spacing of the earlier frames.
C28_HistoryIndependent ==
    (mounted # 0 /\ Len(hist) >= 1 /\ last \in {"tick", "toggle"}) =>
        LET one == Replay(Fresh(mounted, IsDark(theme)), <<elapsed>>, 1)
        IN  /\ \A i \in 1..Len(ent) :
                  ent[i].kind \in {"FloatingRing", "NeonTorus", "GeoCylinder"} =>
                      ent[i].mesh.rotation = one.ent[i].mesh.rotation
            /\ \A i \in 1..Len(points) : points[i].rotation = one.points[i].rotation

\* the neon torus after two frames is as after one frame at the same time, while the
\* octahedron beside it, which counts frames, is not
C28_Witness ==
    /\ mounted = 4
    /\ last = "tick"
    /\ Len(hist) = 2
    /\ hist[1] # 0
    /\ ent[1].kind = "NeonTorus"
    /\ ent[1].mesh.rotation[1] # 0
    /\ ent[1].mesh.rotation = Replay(Fresh(4, IsDark(theme)), <<elapsed>>, 1).ent[1].mesh.rotation
    /\ ent[3].mesh.rotation # Replay(Fresh(4, IsDark(theme)), <<elapsed>>, 1).ent[3].mesh.rotation

\* C29: the scenes of Designs 2, 3, 4 and 5 do not depend on the theme mode: after any
\* frames and theme toggles, every mesh (its color, position and rotation) and every
\* light is as in a run with the same frames and no toggle, under either mode.
C29_ThemeIndependent ==
    mounted \in {2, 3, 4, 5} =>
        \A b \in BOOLEAN :
            LET ref == Replay(Fresh(mounted, b), hist, 1)
            IN  /\ ent = ref.ent
                /\ lights = ref.lights
                /\ points = <<>>

\* the Aurora scene toggled after its frames
C29_Witness ==
    /\ mounted = 3
    /\ last = "toggle"
    /\ Len(hist) = MaxFrames
    /\ ent[1].mesh.rotation # NoRotation
    /\ ent = Replay(Fresh(3, ~IsDark(theme)), hist, 1).ent

\* C30: Nav's scrolled flag is false when the bar mounts, whatever window.scrollY is; a
\* scroll event delivered while the bar is mounted leaves it equal to (scrollY > 50);
\* once the bar is unmounted its handler is off window and a scroll event leaves the
\* flag as it was.
C30_ScrolledFlag ==
    [][ /\ (mounted' # 0 /\ last' \in {"navigate", "redirect", "resolve"}) =>
              (~scrolled' /\ listening')
        /\ (last' = "scroll" /\ mounted # 0) => scrolled' = (scrollY' > 50)
        /\ (last' = "scroll" /\ mounted = 0) => scrolled' = scrolled
        /\ (mounted' = 0 => ~listening') ]_vars

\* the bar was unmounted with the flag set, and the page has since been scrolled to the top
C30_Witness ==
    /\ mounted = 0
    /\ loaded # {}
    /\ last = "scroll"
    /\ scrollY <= 50
    /\ scrolled

====
